---------------------------- MODULE Spec2Model ----------------------------
(***************************************************************************)
(* Certificate reconciliation of templates/manage_certs.py: one run loads  *)
(* the haproxy backend map, probes every domain (DNS, then a TLS handshake *)
(* against localhost:443), requests certificates per backend, and removes  *)
(* certificate files that serve no active domain.                          *)
(*                                                                         *)
(* Text (map lines, domain names, backend names, certificate names) is a   *)
(* sequence of one-character strings, so that strip / startswith / split / *)
(* "*" in name are computed as the code computes them.                     *)
(***************************************************************************)
EXTENDS Integers, Sequences, FiniteSets, TLC

VARIABLES
    pc,                 \* position of main(): "load", "probe", "group", "issue", "glob", "cleanup", "done", "aborted"
    run,                \* number of the current invocation of main()
    abort,              \* the call that raised out of main(), "none" while the run is alive
    mapFile,            \* the haproxy backend map on disk: [exists, lines]
    dns,                \* what socket.gethostbyname gives for each domain: an address, or "gaierror"
    tls,                \* what conn.connect(("localhost", 443)) does with each SNI name: "ok", "SSLError", "OSError"
    deny,               \* per certificate stem, the filesystem call that fails: "none", "read", "unlink", "rename"
    certDir,            \* config.haproxy_certs_dir: stem -> the certificate held by <stem>.pem
    renewal,            \* /etc/letsencrypt/renewal: stem -> [conf, disabled], the content of <stem>.conf and <stem>.disabled
    all_domains,        \* main()'s all_domains: the OrderedDict as a sequence of <<domain, backend>>
    pidx,               \* index in all_domains of the next domain get_certless_domains examines
    certless,           \* the list get_certless_domains is building
    domains_by_backend, \* request_new_certs' dict, in insertion order: sequence of <<backend, domain list>>
    calls,              \* the issuance client invocations of this run: sequence of [domains, outcome]
    globbed,            \* the paths glob("*.pem") produced for this cleanup pass, in enumeration order
    cidx,               \* index in globbed of the next certificate file clean_up_certs examines
    dirAtScan,          \* certDir as it was when the cleanup pass of this run enumerated it
    config,             \* the parsed arguments that vary: [staging, fake_cert]
    ctx,                \* get_ssl_context.ctx, the function attribute of this process
    builds,             \* how many SSL contexts this process has constructed
    prev,               \* how the previous invocation ended and the outcomes of its issuance calls
    origin              \* the two directories as they were before the first invocation

vars == <<pc, run, abort, mapFile, dns, tls, deny, certDir, renewal, all_domains, pidx,
          certless, domains_by_backend, calls, globbed, cidx, dirAtScan, config, ctx, builds,
          prev, origin>>

---------------------------------------------------------------------------
(* Bounds and the finite universe the environment is drawn from.           *)

MaxRuns == 2

Range(f) == {f[i] : i \in DOMAIN f}

A == <<"a">>
B == <<"b">>
C == <<"c">>
Old == <<"o">>
WildOld == <<"*", ".", "o">>

X == <<"x">>

server_ip == "10.0.0.1"
OtherIp == "10.0.0.2"

Stems == {"p", "q"}

---------------------------------------------------------------------------
(* get_all_domains: the line-oriented parser of the backend map.           *)

IsSpace(c) == c \in {" ", "\t", "\n"}

RECURSIVE LStrip(_)
LStrip(s) == IF s = <<>> THEN s ELSE IF IsSpace(Head(s)) THEN LStrip(Tail(s)) ELSE s

RECURSIVE RStrip(_)
RStrip(s) ==
    IF s = <<>> THEN s
    ELSE IF IsSpace(s[Len(s)]) THEN RStrip(SubSeq(s, 1, Len(s) - 1)) ELSE s

\* str.strip()
Strip(s) == RStrip(LStrip(s))

\* line.startswith("#")
StartsWithHash(s) == s # <<>> /\ s[1] = "#"

\* index of the first whitespace character of s, 0 when there is none
FirstSpace(s) ==
    IF \E i \in 1..Len(s) : IsSpace(s[i])
    THEN CHOOSE i \in 1..Len(s) : IsSpace(s[i]) /\ \A j \in 1..(i - 1) : ~IsSpace(s[j])
    ELSE 0

\* line.split(None, 1) on a stripped, non-empty line: a list of one or two items
SplitOnce(s) ==
    LET i == FirstSpace(s)
    IN  IF i = 0 THEN <<s>> ELSE <<SubSeq(s, 1, i - 1), LStrip(SubSeq(s, i + 1, Len(s)))>>

\* a mapping in which the first line of a name wins
DictSet_KeepFirst(od, k, v) ==
    IF \E i \in 1..Len(od) : od[i][1] = k THEN od ELSE Append(od, <<k, v>>)

\* domains[domain] = backend on an OrderedDict: a known key keeps its place
DictSet(od, k, v) ==
    IF \E i \in 1..Len(od) : od[i][1] = k
    THEN [i \in 1..Len(od) |-> IF od[i][1] = k THEN <<k, v>> ELSE od[i]]
    ELSE Append(od, <<k, v>>)

\* the loop body of get_all_domains on one line; [ok |-> FALSE] is the ValueError of
\* unpacking a one-item split into "domain, backend"
RECURSIVE ParseLines(_, _)
ParseLines(lines, od) ==
    IF lines = <<>> THEN [ok |-> TRUE, domains |-> od]
    ELSE LET line == Strip(Head(lines))
         IN  IF line # <<>> /\ ~StartsWithHash(line)
             THEN LET parts == SplitOnce(line)
                  IN  IF Len(parts) # 2 THEN [ok |-> FALSE, domains |-> od]
                      ELSE ParseLines(Tail(lines), DictSet(od, parts[1], parts[2]))
             ELSE ParseLines(Tail(lines), od)

\* a parser that passes over a line it cannot split and reads a missing file as empty
RECURSIVE ParseLinesLenient(_, _)
ParseLinesLenient(lines, od) ==
    IF lines = <<>> THEN [ok |-> TRUE, domains |-> od]
    ELSE LET line == Strip(Head(lines))
         IN  IF line # <<>> /\ ~StartsWithHash(line) /\ Len(SplitOnce(line)) = 2
             THEN ParseLinesLenient(Tail(lines), DictSet(od, SplitOnce(line)[1], SplitOnce(line)[2]))
             ELSE ParseLinesLenient(Tail(lines), od)

get_all_domains_Lenient(file) == ParseLinesLenient(file.lines, <<>>)

\* get_all_domains(config): open() raises when the file is missing
get_all_domains(file) ==
    IF ~file.exists THEN [ok |-> FALSE, domains |-> <<>>]
    ELSE ParseLines(file.lines, <<>>)

Keys(od) == {od[i][1] : i \in 1..Len(od)}
KeySeq(od) == [i \in 1..Len(od) |-> od[i][1]]
Lookup(od, k) == (CHOOSE i \in 1..Len(od) : od[i][1] = k)


---------------------------------------------------------------------------
(* CertificateValidator: has_valid_dns_record, has_valid_cert and the      *)
(* filter of get_certless_domains.                                         *)

\* get_ssl_context.ctx = None
NoCtx == [built |-> FALSE, anchors |-> {}, id |-> 0]

\* a context is constructed on every call
needs_build_Always(c) == TRUE

\* "if not get_ssl_context.ctx"
needs_build(c) == ~c.built

\* lines 38-41: create_default_context, the system bundle, and the fake certificate
\* when staging is on and one is configured; n numbers the contexts of the process
BuildContext(cfg, n) ==
    [built |-> TRUE,
     anchors |-> {"/etc/ssl/certs/ca-certificates.crt"} \cup
                 (IF cfg.staging /\ cfg.fake_cert # "None" THEN {cfg.fake_cert} ELSE {}),
     id |-> n]

\* get_ssl_context(config) with the function attribute c and n contexts built so far
get_ssl_context(c, cfg, n) == IF needs_build(c) THEN BuildContext(cfg, n + 1) ELSE c

\* has_valid_dns_record(config, domain): gaierror is caught and gives False
has_valid_dns_record(domain) ==
    IF dns[domain] = "gaierror" THEN FALSE ELSE dns[domain] = server_ip

\* has_valid_cert(config, domain): "ok" returns True, ssl.SSLError returns False and
\* any other exception of connect() (ConnectionRefusedError, TimeoutError) is not caught
has_valid_cert(domain) ==
    CASE tls[domain] = "ok" -> "True"
      [] tls[domain] = "SSLError" -> "False"
      [] OTHER -> "raise"

\* the condition of the list comprehension, evaluated left to right with the
\* short circuit of "and": "True", "False", or "raise" when has_valid_cert raises
needs_certificate_NoDnsCheck(domain) ==
    CASE has_valid_cert(domain) = "raise" -> "raise"
      [] has_valid_cert(domain) = "False" -> "True"
      [] OTHER -> "False"

needs_certificate(domain) ==
    IF ~has_valid_dns_record(domain) THEN "False"
    ELSE CASE has_valid_cert(domain) = "raise" -> "raise"
           [] has_valid_cert(domain) = "False" -> "True"
           [] OTHER -> "False"

---------------------------------------------------------------------------
(* IssuanceBatcher: the grouping loop and the call loop of                 *)
(* request_new_certs.                                                      *)

\* domains_by_backend[backend] = [domain]: each domain replaces its backend's list
SetDefaultAppend_Overwrite(groups, backend, domain) ==
    IF \E i \in 1..Len(groups) : groups[i][1] = backend
    THEN [i \in 1..Len(groups) |->
            IF groups[i][1] = backend THEN <<backend, <<domain>>>> ELSE groups[i]]
    ELSE Append(groups, <<backend, <<domain>>>>)

\* a grouping that files the backend's own name in the group
SetDefaultAppend_AppendsBackend(groups, backend, domain) ==
    IF \E i \in 1..Len(groups) : groups[i][1] = backend
    THEN [i \in 1..Len(groups) |->
            IF groups[i][1] = backend THEN <<backend, Append(groups[i][2], backend)>>
            ELSE groups[i]]
    ELSE Append(groups, <<backend, <<backend>>>>)

\* domains_by_backend.setdefault(backend, []).append(domain)
SetDefaultAppend(groups, backend, domain) ==
    IF \E i \in 1..Len(groups) : groups[i][1] = backend
    THEN [i \in 1..Len(groups) |->
            IF groups[i][1] = backend THEN <<backend, Append(groups[i][2], domain)>>
            ELSE groups[i]]
    ELSE Append(groups, <<backend, <<domain>>>>)

\* the first loop of request_new_certs over certless_domains
RECURSIVE GroupByBackend(_, _, _)
GroupByBackend(domains, od, groups) ==
    IF domains = <<>> THEN groups
    ELSE GroupByBackend(Tail(domains), od,
                        SetDefaultAppend(groups, od[Lookup(od, Head(domains))][2], Head(domains)))

\* what request_cert(config, domains) does to its caller for each thing subprocess.run
\* can do: exit status 0, a non-zero exit status, or an exception (client not installed)
IssuanceOutcomes == {"zero", "nonzero", "exception"}

\* the try/except around request_cert: whether the loop goes on after this outcome
request_continues_Uncaught(outcome) == outcome # "exception"

request_continues(outcome) == outcome \in IssuanceOutcomes

---------------------------------------------------------------------------
(* CertificateJanitor: get_dns_names, remove_cert and the per-file         *)
(* decision of clean_up_certs.                                             *)

\* component.split(":", 1): one item when the component holds no colon
SplitColon(comp) ==
    IF \E i \in 1..Len(comp) : comp[i] = ":"
    THEN LET i == CHOOSE k \in 1..Len(comp) : comp[k] = ":" /\ \A j \in 1..(k - 1) : comp[j] # ":"
         IN  <<SubSeq(comp, 1, i - 1), SubSeq(comp, i + 1, Len(comp))>>
    ELSE <<comp>>

\* the loop over the components of a subjectAltName extension
RECURSIVE SanNames(_, _)
SanNames(comps, acc) ==
    IF comps = <<>> THEN [err |-> FALSE, names |-> acc]
    ELSE LET parts == SplitColon(Head(comps))
         IN  IF Len(parts) # 2 THEN [err |-> TRUE, names |-> <<>>]
             ELSE SanNames(Tail(comps),
                           IF parts[1] = <<"DNS">> THEN Append(acc, parts[2]) ELSE acc)

\* the loop over the subject's components: the first CN, else the ValueError
RECURSIVE SubjectCN(_)
SubjectCN(components) ==
    IF components = <<>> THEN [err |-> TRUE, names |-> <<>>]
    ELSE IF Head(components)[1] = "CN" THEN [err |-> FALSE, names |-> <<Head(components)[2]>>]
    ELSE SubjectCN(Tail(components))

\* get_dns_names(cert): the first subjectAltName extension decides, the CN is the fallback
RECURSIVE ExtensionNames(_, _)
ExtensionNames(exts, subject) ==
    IF exts = <<>> THEN SubjectCN(subject)
    ELSE IF Head(exts).short = "subjectAltName" THEN SanNames(Head(exts).comps, <<>>)
    ELSE ExtensionNames(Tail(exts), subject)

get_dns_names_CnFirst(cert) ==
    IF ~SubjectCN(cert.subject).err THEN SubjectCN(cert.subject)
    ELSE ExtensionNames(cert.exts, <<>>)

get_dns_names(cert) == ExtensionNames(cert.exts, cert.subject)

\* "*" in name
HasStar(name) == \E i \in 1..Len(name) : name[i] = "*"

\* one iteration of the for loop of clean_up_certs on a file that was read:
\* "raise" (load_certificate fails outside the try), "skip" (continue), "keep", "remove"
clean_decision_NoWildcardCheck(cert, active) ==
    IF ~cert.pem THEN "raise"
    ELSE LET r == get_dns_names(cert)
         IN  IF r.err THEN "skip"
             ELSE IF Range(r.names) \cap active = {} THEN "remove"
             ELSE "keep"

clean_decision_AnyInactive(cert, active) ==
    IF ~cert.pem THEN "raise"
    ELSE LET r == get_dns_names(cert)
         IN  IF r.err THEN "skip"
             ELSE IF \E n \in Range(r.names) : HasStar(n) THEN "skip"
             ELSE IF \E n \in Range(r.names) : n \notin active THEN "remove"
             ELSE "keep"

clean_decision(cert, active) ==
    IF ~cert.pem THEN "raise"
    ELSE LET r == get_dns_names(cert)
         IN  IF r.err THEN "skip"
             ELSE IF \E n \in Range(r.names) : HasStar(n) THEN "skip"
             ELSE IF Range(r.names) \cap active = {} THEN "remove"
             ELSE "keep"

NoFile == "absent"

\* remove_cert's two last lines: <stem>.conf, when it is a file, becomes <stem>.disabled
disable_renewal_Delete(entry) ==
    IF entry.conf # NoFile THEN [conf |-> NoFile, disabled |-> entry.disabled] ELSE entry

disable_renewal(entry) ==
    IF entry.conf # NoFile THEN [conf |-> NoFile, disabled |-> entry.conf] ELSE entry

---------------------------------------------------------------------------
(* The worlds a run starts in.                                             *)

\* backend maps: the two-backend table; comments, a blank line and a repeated domain;
\* tabs, surrounding blanks and a backend of several words; a line with no separator;
\* a file with no entry
MapTwoBackends == << <<"a", " ", "x", "\n">>, <<"b", " ", "x", "\n">>, <<"c", " ", "y", "\n">> >>
MapRepeated == << <<"#", " ", "c", " ", "y", "\n">>, <<"\n">>, <<"a", " ", "x", "\n">>,
                  <<"b", " ", "x", "\n">>, <<"a", " ", "y", "\n">> >>
MapSpacing == << <<" ", "a", "\t", "x", " ", "z", " ", "\n">>, <<"b", " ", " ", "x", " ", "z", "\n">> >>
MapMalformed == << <<"b", " ", "x", "\n">>, <<"a", "\n">> >>
MapEmpty == << <<"#", "a", " ", "x", "\n">> >>

File(lines) == [exists |-> TRUE, lines |-> lines]
MissingFile == [exists |-> FALSE, lines |-> <<>>]

AllMapFiles == {File(MapTwoBackends), File(MapRepeated), File(MapSpacing), File(MapMalformed),
                File(MapEmpty), MissingFile}
GoodMapFiles == {File(MapTwoBackends), File(MapRepeated), File(MapEmpty)}

\* certificates: extensions in order, subject components in order
San(comps) == [short |-> "subjectAltName", comps |-> comps]
KeyUsage == [short |-> "keyUsage", comps |-> <<>>]
Dns(name) == <<"DNS", ":">> \o name
Cert(exts, subject) == [present |-> TRUE, pem |-> TRUE, exts |-> exts, subject |-> subject]

NoCert == [present |-> FALSE, pem |-> FALSE, exts |-> <<>>, subject |-> <<>>]
CertBadPem == [present |-> TRUE, pem |-> FALSE, exts |-> <<>>, subject |-> <<>>]
CertSanActive == Cert(<<KeyUsage, San(<<Dns(A), Dns(C)>>)>>, << <<"O", X>>, <<"CN", A>> >>)
CertSanOld == Cert(<<San(<<Dns(Old)>>)>>, << <<"CN", Old>> >>)
CertSanOldCnActive == Cert(<<San(<<Dns(Old)>>)>>, << <<"CN", A>> >>)
CertWild == Cert(<<San(<<Dns(WildOld)>>)>>, << <<"CN", WildOld>> >>)
CertWildActive == Cert(<<San(<<Dns(WildOld), Dns(A)>>)>>, << <<"CN", A>> >>)
CertCnOld == Cert(<<KeyUsage>>, << <<"O", X>>, <<"CN", Old>> >>)
CertNoName == Cert(<<>>, << <<"O", X>> >>)
CertIpOnly == Cert(<<San(<< <<"IP Address", ":", "0", ":", "1">> >>)>>, << <<"CN", A>> >>)

CertKinds == {CertBadPem, CertSanActive, CertSanOld, CertSanOldCnActive, CertWild,
              CertWildActive, CertCnOld, CertNoName, CertIpOnly}

\* renewal descriptors present at the start: <stem>.conf for every stem, or for "p" alone
RenewalAll == [s \in Stems |-> [conf |-> "conf of " \o s, disabled |-> NoFile]]
RenewalSome == [s \in Stems |-> [conf |-> IF s = "p" THEN "conf of p" ELSE NoFile,
                                 disabled |-> NoFile]]

\* at most one path of the two directories refuses one filesystem call
DenyTables == {d \in [Stems -> {"none", "read", "unlink", "rename"}] :
                  Cardinality({s \in Stems : d[s] # "none"}) <= 1}
DenyNothing == [s \in Stems |-> "none"]

\* the certificate directory of the worlds that vary the network
FewCertDirs == {[s \in Stems |-> IF s = "p" THEN CertSanOld ELSE NoCert],
                [s \in Stems |-> IF s = "p" THEN CertSanActive ELSE CertWild]}

Mentioned(file) == Keys(get_all_domains(file).domains)

\* the arguments: action="store_true" and an optional path
Configs == [staging : BOOLEAN, fake_cert : {"None", "/etc/ssl/fake.pem"}]
DefaultConfig == [staging |-> FALSE, fake_cert |-> "None"]

\* worlds that vary the network under every backend map
InitNetwork ==
    /\ mapFile \in AllMapFiles
    /\ dns \in [Mentioned(mapFile) -> {server_ip, OtherIp, "gaierror"}]
    /\ tls \in [Mentioned(mapFile) -> {"ok", "SSLError", "OSError"}]
    /\ certDir \in FewCertDirs
    /\ renewal = RenewalAll
    /\ deny = DenyNothing
    /\ config = DefaultConfig

\* worlds that vary the two directories under the well-formed backend maps
InitDirectories ==
    /\ mapFile \in GoodMapFiles
    /\ dns = [d \in Mentioned(mapFile) |-> server_ip]
    /\ tls = [d \in Mentioned(mapFile) |-> "ok"]
    /\ certDir \in [Stems -> CertKinds \cup {NoCert}]
    /\ renewal \in {RenewalAll, RenewalSome}
    /\ deny \in DenyTables
    /\ config = DefaultConfig

\* worlds that vary --letsencrypt-use-staging and --letsencrypt-fake-cert
InitConfig ==
    /\ mapFile = File(MapTwoBackends)
    /\ dns = [d \in Mentioned(mapFile) |-> server_ip]
    /\ tls \in [Mentioned(mapFile) -> {"ok", "SSLError"}]
    /\ certDir \in FewCertDirs
    /\ renewal = RenewalAll
    /\ deny = DenyNothing
    /\ config \in Configs

\* the locals of main() before its first statement
FreshRun ==
    /\ pc = "load"
    /\ abort = "none"
    /\ all_domains = <<>>
    /\ pidx = 1
    /\ certless = <<>>
    /\ domains_by_backend = <<>>
    /\ calls = <<>>
    /\ globbed = <<>>
    /\ cidx = 1
    /\ dirAtScan = certDir

Init ==
    /\ InitNetwork \/ InitDirectories \/ InitConfig
    /\ run = 1
    /\ prev = [end |-> "none", outcomes |-> {}]
    /\ origin = [certDir |-> certDir, renewal |-> renewal]
    /\ ctx = NoCtx
    /\ builds = 0
    /\ FreshRun

---------------------------------------------------------------------------
(* main(), one statement (or one loop iteration) per action.               *)

world == <<mapFile, dns, tls, deny, config, origin>>
disk == <<certDir, renewal>>
issuance == <<certless, domains_by_backend, calls>>
cleanup == <<globbed, cidx, dirAtScan>>

\* line 187: all_domains = get_all_domains(config)
LoadDomains ==
    /\ pc = "load"
    /\ get_all_domains(mapFile).ok
    /\ all_domains' = get_all_domains(mapFile).domains
    /\ pc' = "probe"
    /\ UNCHANGED <<run, prev, ctx, builds, abort, world, disk, pidx, issuance, cleanup>>

\* line 187 raising: open() fails, or a line has no whitespace separator
LoadFails ==
    /\ pc = "load"
    /\ ~get_all_domains(mapFile).ok
    /\ pc' = "aborted"
    /\ abort' = "get_all_domains"
    /\ UNCHANGED <<run, prev, ctx, builds, world, disk, all_domains, pidx, issuance, cleanup>>

\* has_valid_cert is reached for a domain whose DNS record is valid, and fetches the
\* context before it connects
ContextAfterProbe(domain) ==
    IF has_valid_dns_record(domain) THEN get_ssl_context(ctx, config, builds) ELSE ctx
BuildsAfterProbe(domain) ==
    IF has_valid_dns_record(domain) /\ needs_build(ctx) THEN builds + 1 ELSE builds

\* one iteration of the list comprehension of get_certless_domains
ProbeDomain ==
    /\ pc = "probe"
    /\ pidx <= Len(all_domains)
    /\ LET domain == all_domains[pidx][1]
       IN  /\ needs_certificate(domain) # "raise"
           /\ certless' = IF needs_certificate(domain) = "True"
                          THEN Append(certless, domain) ELSE certless
           /\ ctx' = ContextAfterProbe(domain)
           /\ builds' = BuildsAfterProbe(domain)
    /\ pidx' = pidx + 1
    /\ UNCHANGED <<pc, run, prev, abort, world, disk, all_domains, domains_by_backend, calls, cleanup>>

\* has_valid_cert raises inside the list comprehension: nothing catches it
ProbeRaises ==
    /\ pc = "probe"
    /\ pidx <= Len(all_domains)
    /\ needs_certificate(all_domains[pidx][1]) = "raise"
    /\ pc' = "aborted"
    /\ abort' = "has_valid_cert"
    /\ ctx' = ContextAfterProbe(all_domains[pidx][1])
    /\ builds' = BuildsAfterProbe(all_domains[pidx][1])
    /\ UNCHANGED <<run, prev, world, disk, all_domains, pidx, issuance, cleanup>>

\* lines 113-116: the grouping loop; with no group the call loop is empty and main()
\* goes on to clean_up_certs
GroupDomains ==
    /\ pc = "probe"
    /\ pidx > Len(all_domains)
    /\ domains_by_backend' = GroupByBackend(certless, all_domains, <<>>)
    /\ pc' = IF domains_by_backend' = <<>> THEN "glob" ELSE "issue"
    /\ UNCHANGED <<run, prev, ctx, builds, abort, world, disk, all_domains, pidx, certless, calls, cleanup>>

\* request_new_certs returns after its first call
loop_exhausted_AfterFirstCall(ncalls, ngroups) == ncalls >= 1

\* the for loop of line 117 ends when every group has had its call
loop_exhausted(ncalls, ngroups) == ncalls = ngroups

\* lines 117-122: one iteration of the call loop, for each thing the client can do
RequestCert ==
    /\ pc = "issue"
    /\ Len(calls) < Len(domains_by_backend)
    /\ \E outcome \in IssuanceOutcomes :
          /\ calls' = Append(calls, [domains |-> domains_by_backend[Len(calls) + 1][2],
                                     outcome |-> outcome])
          /\ IF request_continues(outcome)
             THEN /\ pc' = IF loop_exhausted(Len(calls'), Len(domains_by_backend))
                          THEN "glob" ELSE "issue"
                  /\ abort' = abort
             ELSE /\ pc' = "aborted"
                  /\ abort' = "request_cert"
    /\ UNCHANGED <<run, prev, ctx, builds, world, disk, all_domains, pidx, certless, domains_by_backend, cleanup>>

\* the orders in which glob("*.pem") can enumerate the directory
Orders(S) == {o \in [1..Cardinality(S) -> S] : Range(o) = S}

\* line 154: the directory is enumerated
BeginCleanup ==
    /\ pc = "glob"
    /\ globbed' \in Orders({s \in Stems : certDir[s].present})
    /\ cidx' = 1
    /\ dirAtScan' = certDir
    /\ pc' = "cleanup"
    /\ UNCHANGED <<run, prev, ctx, builds, abort, world, disk, all_domains, pidx, issuance>>

Current == globbed[cidx]

\* a cleanup that opens the backend map again
cleanup_domains_Reread(loaded, file) == Keys(get_all_domains(file).domains)

\* lines 187-189 and 152: clean_up_certs is handed the mapping main() loaded
cleanup_domains(loaded, file) == Keys(loaded)

Decision == IF deny[Current] = "read" THEN "raise"
            ELSE clean_decision(certDir[Current], cleanup_domains(all_domains, mapFile))

\* lines 155-163: read_bytes or load_certificate raises, outside the try
CleanRaises ==
    /\ pc = "cleanup"
    /\ cidx <= Len(globbed)
    /\ Decision = "raise"
    /\ pc' = "aborted"
    /\ abort' = IF deny[Current] = "read" THEN "read_bytes" ELSE "load_certificate"
    /\ UNCHANGED <<run, prev, ctx, builds, world, disk, all_domains, pidx, issuance, cleanup>>

\* lines 156-164: the file is passed over (no name, a wildcard, or an active name)
CleanKeeps ==
    /\ pc = "cleanup"
    /\ cidx <= Len(globbed)
    /\ Decision \in {"skip", "keep"}
    /\ cidx' = cidx + 1
    /\ UNCHANGED <<pc, run, prev, ctx, builds, abort, world, disk, all_domains, pidx, issuance, globbed, dirAtScan>>

\* the pass ends with the first removal
next_file_StopsAfterRemoval(i, n) == n + 1

\* the for loop of line 154 goes on with the next path after remove_cert has returned
next_file(i, n) == i + 1

\* line 166 and remove_cert: unlink, then the rename of the descriptor when it is a file
CleanRemoves ==
    /\ pc = "cleanup"
    /\ cidx <= Len(globbed)
    /\ Decision = "remove"
    /\ deny[Current] # "unlink"
    /\ ~(deny[Current] = "rename" /\ renewal[Current].conf # NoFile)
    /\ certDir' = [certDir EXCEPT ![Current] = NoCert]
    /\ renewal' = [renewal EXCEPT ![Current] = disable_renewal(@)]
    /\ cidx' = next_file(cidx, Len(globbed))
    /\ UNCHANGED <<pc, run, prev, ctx, builds, abort, world, all_domains, pidx, issuance, globbed, dirAtScan>>

\* a remove_cert that renames the descriptor before it deletes the certificate
conf_after_unlink_raised_RenamedFirst(r) == disable_renewal(r)

\* line 145 raises: lines 146-148 are not reached and the descriptor is as it was
conf_after_unlink_raised(r) == r

\* remove_cert raising: unlink fails, or unlink succeeds and rename fails
RemoveRaises ==
    /\ pc = "cleanup"
    /\ cidx <= Len(globbed)
    /\ Decision = "remove"
    /\ \/ /\ deny[Current] = "unlink"
          /\ abort' = "unlink"
          /\ certDir' = certDir
          /\ renewal' = [renewal EXCEPT ![Current] = conf_after_unlink_raised(@)]
       \/ /\ deny[Current] = "rename"
          /\ renewal[Current].conf # NoFile
          /\ abort' = "rename"
          /\ certDir' = [certDir EXCEPT ![Current] = NoCert]
          /\ renewal' = renewal
    /\ pc' = "aborted"
    /\ UNCHANGED <<run, prev, ctx, builds, world, all_domains, pidx, issuance, cleanup>>

\* the for loop of clean_up_certs is exhausted and main() returns
Finish ==
    /\ pc = "cleanup"
    /\ cidx > Len(globbed)
    /\ pc' = "done"
    /\ UNCHANGED <<run, prev, ctx, builds, abort, world, disk, all_domains, pidx, issuance, cleanup>>

\* the scheduler starts main() again once the previous invocation has ended
NextRun ==
    /\ pc \in {"done", "aborted", "killed"}
    /\ run < MaxRuns
    /\ run' = run + 1
    /\ prev' = [end |-> pc, outcomes |-> {calls[i].outcome : i \in 1..Len(calls)}]
    /\ ctx' = NoCtx
    /\ builds' = 0
    /\ pc' = "load"
    /\ abort' = "none"
    /\ all_domains' = <<>>
    /\ pidx' = 1
    /\ certless' = <<>>
    /\ domains_by_backend' = <<>>
    /\ calls' = <<>>
    /\ globbed' = <<>>
    /\ cidx' = 1
    /\ dirAtScan' = certDir
    /\ UNCHANGED <<world, disk>>

Next ==
    \/ LoadDomains
    \/ LoadFails
    \/ ProbeDomain
    \/ ProbeRaises
    \/ GroupDomains
    \/ RequestCert
    \/ BeginCleanup
    \/ CleanRaises
    \/ CleanKeeps
    \/ CleanRemoves
    \/ RemoveRaises
    \/ Finish
    \/ NextRun

Spec == Init /\ [][Next]_vars

\* ---------------------------------------------------------------------------
\* The process is terminated from outside (a signal, a reboot) while main() runs
\* ---------------------------------------------------------------------------

Running == pc \notin {"done", "aborted", "killed"}

\* main, lines 177-189: the process ends between two steps; nothing is written
Kill ==
    /\ Running
    /\ pc' = "killed"
    /\ UNCHANGED <<run, prev, ctx, builds, abort, world, disk, all_domains, pidx, issuance, cleanup>>

\* remove_cert, lines 145-148: the process ends after cert.unlink() has returned and
\* before the descriptor is renamed
KillInRemove ==
    /\ pc = "cleanup"
    /\ cidx <= Len(globbed)
    /\ Decision = "remove"
    /\ deny[Current] # "unlink"
    /\ certDir' = [certDir EXCEPT ![Current] = NoCert]
    /\ pc' = "killed"
    /\ UNCHANGED <<run, prev, ctx, builds, abort, world, renewal, all_domains, pidx, issuance, cleanup>>

NextKill ==
    \/ Next
    \/ Kill
    \/ KillInRemove

SpecKill == Init /\ [][NextKill]_vars

\* ---------------------------------------------------------------------------
\* The backend map is rewritten (by the configuration management) while main() runs
\* ---------------------------------------------------------------------------

\* the file is replaced by another well-formed map over names the resolver knows,
\* after main() has loaded it (line 187) and before main() returns
EditMap ==
    /\ pc \in {"probe", "issue", "glob", "cleanup"}
    /\ mapFile' \in {f \in GoodMapFiles \ {mapFile} : Mentioned(f) \subseteq DOMAIN dns}
    /\ UNCHANGED <<pc, run, prev, ctx, builds, abort, dns, tls, deny, config, origin, disk,
                   all_domains, pidx, issuance, cleanup>>

NextEdit ==
    \/ Next
    \/ EditMap

SpecEdit == Init /\ [][NextEdit]_vars

---------------------------------------------------------------------------
(* Vocabulary of the properties: what a certificate serves, read off the   *)
(* certificate itself, and where a run stands.                             *)

HasSan(cert) == \E i \in 1..Len(cert.exts) : cert.exts[i].short = "subjectAltName"
HasCN(cert) == \E i \in 1..Len(cert.subject) : cert.subject[i][1] = "CN"
FirstSan(cert) ==
    cert.exts[CHOOSE i \in 1..Len(cert.exts) :
                 /\ cert.exts[i].short = "subjectAltName"
                 /\ \A j \in 1..(i - 1) : cert.exts[j].short # "subjectAltName"]
FirstCN(cert) ==
    cert.subject[CHOOSE i \in 1..Len(cert.subject) :
                    /\ cert.subject[i][1] = "CN"
                    /\ \A j \in 1..(i - 1) : cert.subject[j][1] # "CN"][2]

\* the certificate parses and names what it serves (it yields a CertificateRecord)
HasRecord(cert) == cert.present /\ cert.pem /\ (HasSan(cert) \/ HasCN(cert))

\* served_names: the DNS entries of the Subject Alternative Names, the Common Name
\* only when there is no such extension
ServedNames(cert) ==
    IF ~HasRecord(cert) THEN {}
    ELSE IF HasSan(cert)
         THEN {SubSeq(c, 3, Len(c)) : c \in {d \in Range(FirstSan(cert).comps) :
                                              Len(d) >= 2 /\ d[1] = "DNS" /\ d[2] = ":"}}
         ELSE {FirstCN(cert)}

IsWildcard(cert) == \E n \in ServedNames(cert) : HasStar(n)

\* ActiveDomainSet of the current run
Active == Keys(all_domains)

\* eligible for deletion: a record, not a wildcard, serving no active domain
Eligible(cert) == HasRecord(cert) /\ ~IsWildcard(cert) /\ ServedNames(cert) \cap Active = {}

\* <stem>.pem was there when the pass enumerated the directory and is gone now
Removed(s) == dirAtScan[s].present /\ ~certDir[s].present

CleanupAborts == {"read_bytes", "load_certificate", "unlink", "rename"}

\* get_certless_domains has returned
ProbeReturned ==
    \/ pc \in {"issue", "glob", "cleanup", "done"}
    \/ pc = "aborted" /\ abort \in CleanupAborts \cup {"request_cert"}

\* request_new_certs has returned
IssuanceReturned ==
    \/ pc \in {"glob", "cleanup", "done"}
    \/ pc = "aborted" /\ abort \in CleanupAborts

\* the domain resolves to the configured server address and its live check does not succeed
Needs(d) == dns[d] = server_ip /\ tls[d] # "ok"

BackendOf(d) == all_domains[Lookup(all_domains, d)][2]
Backends == {all_domains[i][2] : i \in 1..Len(all_domains)}
DomainsOf(b) == {d \in Active : BackendOf(d) = b}
NeedingOf(b) == {d \in DomainsOf(b) : Needs(d)}

---------------------------------------------------------------------------
(* Properties.                                                             *)

\* C1: no step of any run deletes a certificate file whose served names share a name
\* with the domains of the backend map loaded for that run.
C1_ActiveCertNeverDeleted ==
    [][\A s \in Stems :
          (certDir[s].present /\ ~certDir'[s].present)
              => ServedNames(certDir[s]) \cap Active = {}]_vars

\* C1 witness: a pass has ended in which a certificate serving one active and one
\* inactive name was examined and kept while another file was removed.
C1_Witness ==
    /\ pc = "done"
    /\ \E s, t \in Stems :
          /\ s \in Range(globbed)
          /\ ServedNames(dirAtScan[s]) \cap Active # {}
          /\ ServedNames(dirAtScan[s]) \ Active # {}
          /\ certDir[s] = dirAtScan[s]
          /\ Removed(t)

\* C2: a file is only ever removed when it is eligible (a record, no wildcard, no
\* active name), and when a cleanup pass has run to its end every eligible file of
\* the directory has been removed.
C2_RemovedIffEligible ==
    /\ \A s \in Stems : Removed(s) => Eligible(dirAtScan[s])
    /\ pc = "done" => \A s \in Stems : dirAtScan[s].present /\ Eligible(dirAtScan[s]) => Removed(s)

\* C2 witness: a pass has ended with one file removed and one file kept, the removed
\* one carrying an active Common Name next to inactive Subject Alternative Names.
C2_Witness ==
    /\ pc = "done"
    /\ \E s, t \in Stems :
          /\ Removed(s)
          /\ HasSan(dirAtScan[s])
          /\ HasCN(dirAtScan[s])
          /\ FirstCN(dirAtScan[s]) \in Active
          /\ t \in Range(globbed)
          /\ ~Removed(t)

\* C3: no step deletes a certificate one of whose served names contains "*", nor
\* changes its renewal descriptor.
C3_WildcardUntouched ==
    [][\A s \in Stems :
          (certDir[s].present /\ IsWildcard(certDir[s]))
              => (certDir'[s] = certDir[s] /\ renewal'[s] = renewal[s])]_vars

\* C3 witness: a pass has ended that examined a wildcard certificate serving no
\* active name and a wildcard certificate serving an active name, both still there.
C3_Witness ==
    /\ pc = "done"
    /\ \E s, t \in Stems :
          /\ {s, t} \subseteq Range(globbed)
          /\ IsWildcard(certDir[s]) /\ ServedNames(certDir[s]) \cap Active = {}
          /\ IsWildcard(certDir[t]) /\ ServedNames(certDir[t]) \cap Active # {}
          /\ renewal[s].conf # NoFile

\* C4: only domains that resolve to the server address and fail the live check are
\* ever queued, and once get_certless_domains has returned its list is exactly those
\* domains of the backend map, in map order.
C4_QueuedIffNeeds ==
    /\ \A i \in 1..Len(certless) : Needs(certless[i])
    /\ ProbeReturned => certless = SelectSeq(KeySeq(all_domains), LAMBDA d : Needs(d))

\* C4 witness: the list has been returned with a domain queued, while a domain that
\* resolves elsewhere and one that does not resolve, both failing the live check,
\* are not queued.
C4_Witness ==
    /\ ProbeReturned
    /\ certless # <<>>
    /\ \E d, e \in Active :
          /\ dns[d] = OtherIp /\ tls[d] = "SSLError" /\ d \notin Range(certless)
          /\ dns[e] = "gaierror" /\ tls[e] = "SSLError" /\ e \notin Range(certless)

\* C5: once request_new_certs has returned, each backend with a needing domain was
\* called exactly once with exactly its needing domains, each backend without one was
\* not called, and every call belongs to one backend.
C5_OneCallPerNeedingBackend ==
    IssuanceReturned =>
        /\ \A b \in Backends :
              /\ Cardinality({i \in 1..Len(calls) : Range(calls[i].domains) \cap DomainsOf(b) # {}})
                     = IF NeedingOf(b) = {} THEN 0 ELSE 1
              /\ NeedingOf(b) # {} =>
                     \E i \in 1..Len(calls) :
                        /\ Range(calls[i].domains) = NeedingOf(b)
                        /\ Len(calls[i].domains) = Cardinality(NeedingOf(b))
        /\ \A i \in 1..Len(calls) :
              \E b \in Backends : NeedingOf(b) # {} /\ Range(calls[i].domains) \subseteq DomainsOf(b)

\* C5 witness: the run of the two-backend table has ended with a single call, for
\* the two needing domains of one backend, and none for the backend of the third.
C5_Witness ==
    /\ pc = "done"
    /\ Len(calls) = 1
    /\ calls[1].domains = <<A, B>>
    /\ C \in Active
    /\ BackendOf(C) # BackendOf(A)

\* C6: whatever the issuance client does, a step of the call loop records the call
\* and either stays in the loop, with groups left, or hands over to the cleanup
\* scan, with every group called.
C6_FailureDoesNotStopIssuance ==
    [][pc = "issue" =>
          /\ Len(calls') = Len(calls) + 1
          /\ pc' \in {"issue", "glob"}
          /\ (pc' = "glob") = (Len(calls') = Len(domains_by_backend))]_vars

\* C6 witness: the cleanup pass is running or over after two calls, the first of
\* which raised and the second of which returned a non-zero status.
C6_Witness ==
    /\ pc \in {"cleanup", "done"}
    /\ Len(calls) = 2
    /\ calls[1].outcome = "exception"
    /\ calls[2].outcome = "nonzero"

\* C7 (as claimed): no run ends by an exception raised out of a domain's validation.
C7_ValidationNeverRaises == ~(pc = "aborted" /\ abort = "has_valid_cert")

\* C8 (as claimed): a certificate file that cannot be read, cannot be parsed or
\* names nothing stays as it was, and when the pass that enumerated it is over and no
\* removal has failed, every other eligible file of the directory has been removed.
C8_UnusableFileSkipped ==
    \A s \in Range(globbed) :
       (deny[s] = "read" \/ ~HasRecord(dirAtScan[s])) =>
           /\ certDir[s] = dirAtScan[s]
           /\ (pc \in {"done", "aborted"} /\ abort \notin {"unlink", "rename"}) =>
                 \A t \in Range(globbed) \ {s} :
                    (deny[t] # "read" /\ Eligible(dirAtScan[t])) => Removed(t)

\* C9 (as claimed): when the removal of one file has failed, every other eligible
\* file the pass enumerated is removed in the same run.
C9_RemovalFailureNotFatal ==
    (pc = "aborted" /\ abort \in {"unlink", "rename"}) =>
        \A t \in Range(globbed) \ {globbed[cidx]} : Eligible(dirAtScan[t]) => Removed(t)

\* C10: a step in which remove_cert returns deletes one certificate file, moves the
\* content of its <stem>.conf (when there is one) to <stem>.disabled, and leaves
\* every other certificate file and every other descriptor as it was.
C10_RemovalFrame ==
    [][\A s \in Stems :
          (certDir[s].present /\ ~certDir'[s].present /\ abort' = "none") =>
              /\ renewal'[s] = IF renewal[s].conf # NoFile
                               THEN [conf |-> NoFile, disabled |-> renewal[s].conf]
                               ELSE renewal[s]
              /\ \A t \in Stems \ {s} : certDir'[t] = certDir[t] /\ renewal'[t] = renewal[t]]_vars

\* C10 witness: a file has been removed, its descriptor's content now sits under the
\* disabled name, and the other file and its descriptor are untouched.
C10_Witness ==
    \E s, t \in Stems :
       /\ s # t
       /\ Removed(s)
       /\ renewal[s] = [conf |-> NoFile, disabled |-> "conf of " \o s]
       /\ certDir[t].present
       /\ renewal[t].conf = "conf of " \o t

\* a line that is neither blank nor a comment and holds no whitespace between its
\* first and its last visible character
BadLine(l) ==
    LET visible == {i \in 1..Len(l) : ~IsSpace(l[i])}
    IN  /\ visible # {}
        /\ LET lo == CHOOSE i \in visible : \A j \in visible : i <= j
               hi == CHOOSE i \in visible : \A j \in visible : j <= i
           IN  l[lo] # "#" /\ \A i \in lo..hi : ~IsSpace(l[i])

\* the backend map cannot be opened, or one of its lines has no separator
Unloadable(file) == ~file.exists \/ \E i \in 1..Len(file.lines) : BadLine(file.lines[i])

\* C11: with a backend map that cannot be opened or holds a line without separator,
\* the run goes from its first statement to its end by the exception of
\* get_all_domains, and up to there no domain was examined, no issuance call was
\* made and neither directory was changed.
C11_BadMapAbortsFirst ==
    /\ [](abort = "get_all_domains" =>
             pidx = 1 /\ certless = <<>> /\ calls = <<>> /\ globbed = <<>> /\ certDir = dirAtScan)
    /\ [][(pc = "load" /\ Unloadable(mapFile)) =>
             /\ pc' = "aborted" /\ abort' = "get_all_domains"
             /\ pidx' = 1 /\ calls' = <<>>
             /\ certDir' = certDir /\ renewal' = renewal]_vars

\* C11 witness: the run has been aborted by a map whose second line has no
\* separator, while the domain of its first line needs a certificate and the
\* directory holds a certificate that serves no domain of the map.
C11_Witness ==
    /\ pc = "aborted" /\ abort = "get_all_domains"
    /\ mapFile = File(MapMalformed)
    /\ dns[B] = server_ip /\ tls[B] = "SSLError"
    /\ certDir["p"] = CertSanOld

C13_CleanupAfterIssuance ==
    [][/\ (certDir' # certDir \/ renewal' # renewal) =>
              (pc = "cleanup" /\ Len(calls) = Len(domains_by_backend) /\ calls' = calls)
       /\ (calls' # calls /\ run' = run) =>
              (pc = "issue" /\ globbed = <<>> /\ certDir' = certDir /\ renewal' = renewal)
       /\ (globbed' # globbed /\ run' = run) =>
              (Len(calls) = Len(domains_by_backend) /\ calls' = calls)]_vars

\* C13 witness: an invocation has returned after two issuance calls and the removal
\* of a certificate whose descriptor is now disabled.
C13_Witness ==
    /\ pc = "done"
    /\ Len(calls) = 2
    /\ \E s \in Stems : Removed(s) /\ renewal[s].disabled # NoFile

\* lines 151-166 as a function of the enumeration order: the certificate directory
\* that one pass of clean_up_certs leaves, the pass ending early where a read, a
\* parse, an unlink or a rename raises
RECURSIVE clean_up_certs(_, _, _, _, _)
clean_up_certs(order, dir, ren, den, names) ==
    IF order = <<>> THEN dir
    ELSE LET s == Head(order)
             d == IF den[s] = "read" THEN "raise" ELSE clean_decision(dir[s], names)
         IN  IF d = "raise" THEN dir
             ELSE IF d \in {"skip", "keep"}
                  THEN clean_up_certs(Tail(order), dir, ren, den, names)
             ELSE IF den[s] = "unlink" THEN dir
             ELSE IF den[s] = "rename" /\ ren[s].conf # NoFile
                  THEN [dir EXCEPT ![s] = NoCert]
             ELSE clean_up_certs(Tail(order), [dir EXCEPT ![s] = NoCert], ren, den, names)

\* The pass the actions perform is the pass the function computes: once the pass is
\* over, the directory is the function's value for the order that was enumerated.  (A
\* descriptor is touched only by the removal of its own certificate, so the
\* descriptors at the end decide each rename as the descriptors at the scan did.)
CleanupComputesPass ==
    (pc = "done" \/ (pc = "aborted" /\ abort \in CleanupAborts)) =>
        certDir = clean_up_certs(globbed, dirAtScan, renewal, deny, Active)

\* C14: when the directory has just been enumerated, every order in which the same
\* files could have been enumerated leads the pass to the same certificate directory,
\* hence to the same retained and the same removed files.
C14_OrderIndependent ==
    (pc = "cleanup" /\ cidx = 1) =>
        \A o \in Orders(Range(globbed)) :
            clean_up_certs(o, certDir, renewal, deny, Active)
                = clean_up_certs(globbed, certDir, renewal, deny, Active)

\* What an uninterrupted run that nothing makes raise leaves of the file s of the
\* directory the first invocation started from: an eligible certificate is deleted and
\* its descriptor disabled, every other file and descriptor is as it was.
Uninterrupted(s) ==
    IF Eligible(origin.certDir[s])
    THEN [cert |-> NoCert, conf |-> disable_renewal(origin.renewal[s])]
    ELSE [cert |-> origin.certDir[s], conf |-> origin.renewal[s]]

\* A first invocation that returns leaves exactly that.
ReturnedRunIsUninterrupted ==
    (run = 1 /\ pc = "done") =>
        \A s \in Stems : certDir[s] = Uninterrupted(s).cert /\ renewal[s] = Uninterrupted(s).conf

\* C15: when an invocation was terminated and the next one has returned, the
\* certificate directory and the descriptors are what an uninterrupted run would have
\* left, and every name passed to the client is one that needs a certificate.
C15_TerminatedRunResumed ==
    (run >= 2 /\ prev.end = "killed" /\ pc = "done") =>
        /\ \A s \in Stems :
               certDir[s] = Uninterrupted(s).cert /\ renewal[s] = Uninterrupted(s).conf
        /\ \A i \in 1..Len(calls) : \A j \in 1..Len(calls[i].domains) :
               Needs(calls[i].domains[j])

\* The domain names of the backend map as a reader of the file sees them: the first
\* word of every line that has a word and is not a comment.
FirstWord(l) ==
    LET visible == {i \in 1..Len(l) : ~IsSpace(l[i])}
        lo == CHOOSE i \in visible : \A j \in visible : i <= j
        stops == {i \in lo..Len(l) : IsSpace(l[i])}
        hi == IF stops = {} THEN Len(l)
              ELSE (CHOOSE i \in stops : \A j \in stops : i <= j) - 1
    IN  SubSeq(l, lo, hi)
DataLines(file) ==
    {i \in 1..Len(file.lines) :
        /\ \E k \in 1..Len(file.lines[i]) : ~IsSpace(file.lines[i][k])
        /\ FirstWord(file.lines[i])[1] # "#"}
TableNames(file) == {FirstWord(file.lines[i]) : i \in DataLines(file)}

\* C16: every name of every issuance call is a key of the mapping loaded for this
\* run and the first word of a data line of the backend map; so is every name that
\* get_certless_domains returned.
C16_OnlyTableNamesIssued ==
    /\ \A i \in 1..Len(calls) : \A j \in 1..Len(calls[i].domains) :
           calls[i].domains[j] \in Active \cap TableNames(mapFile)
    /\ \A i \in 1..Len(certless) : certless[i] \in Active \cap TableNames(mapFile)

\* C16 witness: the map names c only on a commented-out line; the run has made a call
\* for each of its two backends and c was in neither.
C16_Witness ==
    /\ pc = "done"
    /\ mapFile = File(MapRepeated)
    /\ Len(calls) = 2
    /\ C \notin Active
    /\ \A i \in 1..Len(calls) : \A j \in 1..Len(calls[i].domains) : calls[i].domains[j] # C

\* The backend a reader of the file finds on a data line: what follows the first word,
\* without the blanks around it.
RestOfLine(l) ==
    LET visible == {i \in 1..Len(l) : ~IsSpace(l[i])}
        after == {i \in visible : \E k \in 1..(i - 1) : IsSpace(l[k]) /\ \E m \in visible : m < k}
        lo == CHOOSE i \in after : \A j \in after : i <= j
        hi == CHOOSE i \in visible : \A j \in visible : j <= i
    IN  SubSeq(l, lo, hi)
LastLineOf(file, d) ==
    CHOOSE i \in DataLines(file) :
        /\ FirstWord(file.lines[i]) = d
        /\ \A j \in DataLines(file) : FirstWord(file.lines[j]) = d => j <= i
LastBackend(file, d) == RestOfLine(file.lines[LastLineOf(file, d)])

\* the places (call, position) at which the name d was passed to the client
PassedAt(d) ==
    {<<i, j>> \in (1..Len(calls)) \X (1..Len(all_domains)) :
        j <= Len(calls[i].domains) /\ calls[i].domains[j] = d}

\* C17: the loaded mapping has one entry per name, with the backend of the last line
\* that names it; every group holds only names whose last line gives the group's
\* backend; a name is never passed twice, and once request_new_certs has returned
\* every needing name has been passed exactly once, in the call of that backend's group.
C17_LastLineWins ==
    /\ \A i, j \in 1..Len(all_domains) : all_domains[i][1] = all_domains[j][1] => i = j
    /\ \A i \in 1..Len(all_domains) :
           all_domains[i][2] = LastBackend(mapFile, all_domains[i][1])
    /\ \A g \in 1..Len(domains_by_backend) : \A j \in 1..Len(domains_by_backend[g][2]) :
           domains_by_backend[g][1] = LastBackend(mapFile, domains_by_backend[g][2][j])
    /\ \A i \in 1..Len(calls) : calls[i].domains = domains_by_backend[i][2]
    /\ \A d \in Active : Cardinality(PassedAt(d)) <= 1
    /\ IssuanceReturned => \A d \in Active : Needs(d) => Cardinality(PassedAt(d)) = 1

\* C17 witness: the map names a on a line of backend x and on a later line of backend
\* y, and b on a line of backend x; both need a certificate; a has been passed once,
\* alone, in the call of group y, and b in the call of group x.
C17_Witness ==
    /\ pc = "done"
    /\ mapFile = File(MapRepeated)
    /\ Needs(A) /\ Needs(B)
    /\ \E i \in 1..Len(calls) :
          calls[i].domains = <<A>> /\ domains_by_backend[i][1] = <<"y">>
    /\ \E i \in 1..Len(calls) :
          calls[i].domains = <<B>> /\ domains_by_backend[i][1] = X

\* C18: a process constructs at most one context; the context it holds is the first
\* one, with the system bundle and, exactly when staging is on and a fake certificate
\* is configured, that certificate as trust anchors; and get_ssl_context returns the
\* context held, unchanged, for every configuration it may be called with.
C18_ContextBuiltOnce ==
    /\ builds <= 1
    /\ ctx.built <=> builds = 1
    /\ ctx.built =>
          /\ ctx.id = 1
          /\ "/etc/ssl/certs/ca-certificates.crt" \in ctx.anchors
          /\ ctx.anchors \subseteq {"/etc/ssl/certs/ca-certificates.crt", config.fake_cert}
          /\ config.fake_cert \in ctx.anchors <=> (config.staging /\ config.fake_cert # "None")
          /\ \A cfg \in Configs : get_ssl_context(ctx, cfg, builds) = ctx

\* C18 witness: staging is on with a fake certificate, three domains have had their
\* live check, and the process holds the one context with both trust anchors.
C18_Witness ==
    /\ config = [staging |-> TRUE, fake_cert |-> "/etc/ssl/fake.pem"]
    /\ pc = "probe" /\ pidx = 4
    /\ \A d \in Active : has_valid_dns_record(d)
    /\ builds = 1
    /\ ctx.anchors = {"/etc/ssl/certs/ca-certificates.crt", "/etc/ssl/fake.pem"}

\* the pass over the directory is over, by returning or by raising
PassOver == pc = "done" \/ (pc = "aborted" /\ abort \in CleanupAborts)

\* C19: the mapping is assigned by the load step only (and cleared between runs);
\* whatever is written to the backend map meanwhile, every name passed to the client
\* is a key of that mapping, and the directory the pass leaves is the one
\* clean_up_certs computes from that mapping: a file is removed only if it is eligible
\* with respect to the loaded names.
C19_LoadedMappingUsedThroughout ==
    /\ [](/\ \A i \in 1..Len(calls) : Range(calls[i].domains) \subseteq Keys(all_domains)
          /\ PassOver =>
                certDir = clean_up_certs(globbed, dirAtScan, renewal, deny, Keys(all_domains))
          /\ \A s \in Stems : Removed(s) =>
                clean_decision(dirAtScan[s], Keys(all_domains)) = "remove")
    /\ [][/\ all_domains' # all_domains => (pc = "load" \/ run' # run)
          /\ mapFile' # mapFile =>
                /\ all_domains' = all_domains
                /\ certDir' = certDir /\ renewal' = renewal
                /\ domains_by_backend' = domains_by_backend]_vars

\* C19 witness: a run has returned; the backend map no longer holds the names that
\* were loaded, and the pass went over a file that it would have decided the other way
\* with the names the map holds now.
C19_Witness ==
    /\ pc = "done"
    /\ Mentioned(mapFile) # Keys(all_domains)
    /\ \E s \in Range(globbed) :
          /\ dirAtScan[s].pem
          /\ clean_decision(dirAtScan[s], Keys(all_domains)) = "keep"
          /\ clean_decision(dirAtScan[s], Mentioned(mapFile)) = "remove"
          /\ certDir[s].present

\* C20: a descriptor that is not as the first invocation found it belongs to a
\* certificate that has been deleted; a step changes a descriptor only by renaming it
\* to its disabled variant while deleting the certificate of the same base name; and
\* a step in which unlink raises changes no descriptor and deletes nothing.
C20_DisabledOnlyAfterDeletion ==
    /\ [](\A s \in Stems : renewal[s] # origin.renewal[s] =>
              /\ ~certDir[s].present
              /\ origin.certDir[s].present
              /\ renewal[s] = disable_renewal(origin.renewal[s]))
    /\ [][/\ \A s \in Stems : renewal'[s] # renewal[s] =>
                 /\ certDir[s].present /\ ~certDir'[s].present
                 /\ renewal'[s] = disable_renewal(renewal[s])
          /\ abort' = "unlink" /\ abort # "unlink" =>
                 renewal' = renewal /\ certDir' = certDir]_vars

\* C20 witness: the pass has disabled the descriptor of a certificate it deleted and
\* has then been stopped by an unlink that failed: that certificate is still there and
\* its descriptor is still enabled.
C20_Witness ==
    /\ pc = "aborted" /\ abort = "unlink"
    /\ certDir[Current].present
    /\ renewal[Current].conf # NoFile /\ renewal[Current].disabled = NoFile
    /\ \E s \in Stems : Removed(s) /\ renewal[s].disabled # NoFile

============================================================================
